---- MODULE Spec2Model ----
(***************************************************************************)
(* Simple-interest accrual schedule (src/src/loan.rs).                     *)
(*                                                                         *)
(* Calendar dates are day numbers (days since 2024-01-01); the code never  *)
(* inspects a date beyond adding whole days to it and subtracting two.     *)
(* A Decimal is a record [m |-> mantissa, s |-> scale] standing for        *)
(* m * 10^-s, as in rust_decimal; the library keeps up to 28 fractional    *)
(* digits, the model keeps MAX_SCALE of them.  All amounts are >= 0.       *)
(***************************************************************************)
EXTENDS Integers, Sequences, FiniteSets, TLC

VARIABLES
    loan,            \* the Loan built by Loan::new, or NoLoan
    schedule,        \* the Schedule struct: [entries |-> Seq(Entry)]
    pc,              \* which constructors have run
    yielded,         \* the items Iterator::next has returned so far, in order
    total_interest,  \* the last calculate_interest call: receiver and result
    value,           \* the text last handed to CurrencyCode::try_from
    parsed,          \* the result of that try_from
    query            \* the last rate-calculator query: date asked about, results

vars == <<loan, schedule, pc, yielded, total_interest, value, parsed, query>>

(***************************** bounds ***************************************)
MaxDay == 3          \* dates range over 0..MaxDay
MaxVecLen == 2       \* longest Vec<Entry> handed to Schedule::from
MaxTextLen == 3      \* longest generated currency text
MAX_SCALE == 7       \* fractional digits a Decimal quotient keeps

(***************************** Decimal **************************************)
Dec(m, s) == [m |-> m, s |-> s]

Zero == Dec(0, 0)

Max(a, b) == IF a >= b THEN a ELSE b

Rescale(d, s) == d.m * 10^(s - d.s)

\* Decimal equality is numeric: 1.5 = 1.50
DecEq(a, b) == Rescale(a, Max(a.s, b.s)) = Rescale(b, Max(a.s, b.s))

DecAdd(a, b) ==
    LET s == Max(a.s, b.s) IN Dec(Rescale(a, s) + Rescale(b, s), s)

DecMul(a, b) == Dec(a.m * b.m, a.s + b.s)

\* long division: one more fractional digit per step until the remainder is
\* zero or the scale is exhausted, then the last digit rounds to nearest
RECURSIVE DivDigits(_, _, _, _)
DivDigits(q, r, s, n) ==
    IF r = 0 THEN Dec(q, s)
    ELSE IF s >= MAX_SCALE
         THEN Dec(IF 2 * r > n \/ (2 * r = n /\ q % 2 = 1) THEN q + 1 ELSE q, s)
         ELSE DivDigits(q * 10 + ((r * 10) \div n), (r * 10) % n, s + 1, n)

\* Decimal / Decimal::from(n), n a positive integer
DecDiv(a, n) == DivDigits(a.m \div n, a.m % n, a.s, n)

\* Decimal::round_dp_with_strategy(2, MidpointNearestEven)
round_dp_MidpointNearestEven(d) ==
    IF d.s <= 2 THEN d
    ELSE LET u == 10^(d.s - 2)
             q == d.m \div u
             r == d.m % u
         IN Dec(IF 2 * r > u \/ (2 * r = u /\ q % 2 = 1) THEN q + 1 ELSE q, 2)

(***************************** CurrencyCode *********************************)
DAYS_IN_YEAR == 365

CurrencyCode == {"GBP", "EUR", "USD"}

\* str::to_uppercase, per character (Unicode: U+017F long s upper-cases to S)
UpperChar(c) ==
    CASE c = "u" -> "U" [] c = "s" -> "S" [] c = "d" -> "D"
      [] c = "g" -> "G" [] c = "b" -> "B" [] c = "p" -> "P"
      [] c = "e" -> "E" [] c = "r" -> "R"
      [] c = "x" -> "X" [] c = "y" -> "Y" [] c = "z" -> "Z"
      [] c = "long_s" -> "S"
      [] OTHER -> c

to_uppercase(text) == [i \in 1..Len(text) |-> UpperChar(text[i])]

Ok(v) == [tag |-> "Ok", v |-> v]

UnknownCurrencyError(currency_code) ==
    [tag |-> "Err", currency_code |-> currency_code]

try_from_case_sensitive(text) ==
    CASE text = <<"G", "B", "P">> -> Ok("GBP")
      [] text = <<"E", "U", "R">> -> Ok("EUR")
      [] text = <<"U", "S", "D">> -> Ok("USD")
      [] OTHER -> UnknownCurrencyError(text)

try_from(text) ==
    LET upper == to_uppercase(text)
    IN CASE upper = <<"G", "B", "P">> -> Ok("GBP")
         [] upper = <<"E", "U", "R">> -> Ok("EUR")
         [] upper = <<"U", "S", "D">> -> Ok("USD")
         [] OTHER -> UnknownCurrencyError(text)

(***************************** Money ****************************************)
Money(v, code) == [value |-> v, code |-> code]

\* impl Add<Decimal> for Money
AddMoneyDecimal(self, rhs) == Money(DecAdd(self.value, rhs), self.code)

\* impl Add<Money> for Decimal
AddDecimalMoney(self, rhs) == Money(DecAdd(self, rhs.value), rhs.code)

bankers_round(money) ==
    Money(round_dp_MidpointNearestEven(money.value), money.code)

(***************************** Loan *****************************************)
NoLoan == [tag |-> "none"]

Loan_new(start_date, end_date, loan_amount, base_rate, margin, currency) ==
    [tag |-> "Loan",
     start_date |-> start_date,
     end_date |-> end_date,
     loan_amount |-> loan_amount,
     base_rate |-> base_rate,
     margin |-> margin,
     currency |-> currency]

daily_interest_without_margin_360(l) ==
    LET daily_rate == DecDiv(DecDiv(l.base_rate, 360), 100)
    IN Money(DecMul(l.loan_amount, daily_rate), l.currency)

daily_interest_without_margin(l) ==
    LET daily_rate == DecDiv(DecDiv(l.base_rate, DAYS_IN_YEAR), 100)
    IN Money(DecMul(l.loan_amount, daily_rate), l.currency)

daily_interest_with_margin(l) ==
    LET daily_rate ==
            DecDiv(DecDiv(DecAdd(l.base_rate, l.margin), DAYS_IN_YEAR), 100)
    IN Money(DecMul(l.loan_amount, daily_rate), l.currency)

(***************************** Schedule *************************************)
Entry(without, with, accrual_date, days_elapsed) ==
    [daily_interest_without_margin |-> without,
     daily_interest_with_margin |-> with,
     accrual_date |-> accrual_date,
     days_elapsed |-> days_elapsed]

Schedule(entries) == [entries |-> entries]

\* signed_duration_since(start_date).num_days()
num_days(l) == l.end_date - l.start_date

NewEntry(l, days_elapsed) ==
    Entry(daily_interest_without_margin(l),
          daily_interest_with_margin(l),
          l.start_date + days_elapsed,
          days_elapsed)

Panic == [tag |-> "panic"]

Schedule_new_exclusive(l) ==
    IF num_days(l) < 0 THEN Panic
    ELSE [tag |-> "Ok",
          v |-> Schedule([i \in 1..num_days(l) |-> NewEntry(l, i - 1)])]

Schedule_new_descending(l) ==
    IF num_days(l) < 0 THEN Panic
    ELSE [tag |-> "Ok",
          v |-> Schedule([i \in 1..(num_days(l) + 1) |->
                             NewEntry(l, num_days(l) + 1 - i)])]

\* Schedule::new.  `num_days() as u64` turns a negative day count d into
\* 2^64 + d, and collecting a range of that many entries into a Vec panics
\* (capacity overflow); otherwise the range is 0..=num_days.
Schedule_new(l) ==
    IF num_days(l) < 0 THEN Panic
    ELSE [tag |-> "Ok",
          v |-> Schedule([i \in 1..(num_days(l) + 1) |-> NewEntry(l, i - 1)])]

None == [some |-> FALSE]

Some(v) == [some |-> TRUE, v |-> v]

\* Vec::pop
Front(s) == SubSeq(s, 1, Len(s) - 1)

Last(s) == s[Len(s)]

\* Iterator::next for Schedule: <<item returned, the schedule afterwards>>
next(self) ==
    IF self.entries = <<>> THEN <<None, self>>
    ELSE <<Some(Last(self.entries)), Schedule(Front(self.entries))>>

TotalInterest(with, without) == [with_margin |-> with, without_margin |-> without]

\* the fold of calculate_interest over the first n entries:
\* <<interest_with_margin, interest_without_margin>>
RECURSIVE Fold(_, _)
Fold(entries, n) ==
    IF n = 0 THEN <<Zero, Zero>>
    ELSE LET acc == Fold(entries, n - 1)
             entry == entries[n]
         IN <<AddDecimalMoney(acc[1],
                  bankers_round(entry.daily_interest_with_margin)).value,
              AddDecimalMoney(acc[2],
                  bankers_round(entry.daily_interest_without_margin)).value>>

RECURSIVE RawSum(_, _)
RawSum(entries, n) ==
    IF n = 0 THEN <<Zero, Zero>>
    ELSE LET acc == RawSum(entries, n - 1)
         IN <<DecAdd(acc[1], entries[n].daily_interest_with_margin.value),
              DecAdd(acc[2], entries[n].daily_interest_without_margin.value)>>

calculate_interest_sum_then_round(self) ==
    IF self.entries = <<>> THEN None
    ELSE LET acc == RawSum(self.entries, Len(self.entries))
             currency_code == self.entries[1].daily_interest_with_margin.code
         IN Some(TotalInterest(
                bankers_round(Money(acc[1], currency_code)),
                bankers_round(Money(acc[2], currency_code))))

calculate_interest_no_empty_check(self) ==
    LET acc == Fold(self.entries, Len(self.entries))
        currency_code ==
            IF self.entries = <<>> THEN "GBP"
            ELSE self.entries[1].daily_interest_with_margin.code
    IN Some(TotalInterest(Money(acc[1], currency_code),
                          Money(acc[2], currency_code)))

calculate_interest(self) ==
    IF self.entries = <<>> THEN None
    ELSE LET acc == Fold(self.entries, Len(self.entries))
             currency_code == self.entries[1].daily_interest_with_margin.code
         IN Some(TotalInterest(Money(acc[1], currency_code),
                               Money(acc[2], currency_code)))

(***************************** inputs ***************************************)
Dates == 0..MaxDay

Amounts == {Dec(100, 0), Dec(100000, 0)}

BaseRates == {Dec(0, 0), Dec(5, 0)}

Margins == {Dec(0, 0), Dec(1, 0)}

\* amounts of hand-built entries: 0.125 and 0.135, both midpoints
VecAmounts == {Dec(125, 3), Dec(135, 3)}

VecCodes == {"USD", "GBP"}

VecEntries ==
    {Entry(Money(a, c1), Money(b, c2), 0, 0) :
        a \in VecAmounts, b \in VecAmounts, c1 \in VecCodes, c2 \in VecCodes}

SeqsUpTo(S, n) == UNION {[1..k -> S] : k \in 0..n}

Alphabet == {"u", "U", "s", "d", "!", "long_s"}

Texts ==
    SeqsUpTo(Alphabet, MaxTextLen)
      \cup {<<"G", "B", "P">>, <<"g", "b", "p">>, <<"G", "b", "p">>,
            <<"E", "U", "R">>, <<"e", "u", "r">>, <<"E", "u", "R">>,
            <<"X", "Y", "Z", "1", "2">>, <<"u", "s", "d", "!">>,
            <<"U", "S", "D">>, <<"G", "B", "P", "X">>}

(***************************** state machine ********************************)
NoTotal == [called |-> FALSE]

NoQuery == [asked |-> FALSE]

NotParsed == [tag |-> "none"]

Init ==
    /\ loan = NoLoan
    /\ schedule = Schedule(<<>>)
    /\ pc = "main"
    /\ yielded = <<>>
    /\ total_interest = NoTotal
    /\ value = <<>>
    /\ parsed = NotParsed
    /\ query = NoQuery

\* CurrencyCode::try_from(text)
TryFrom ==
    \E text \in Texts :
        /\ value' = text
        /\ parsed' = try_from(text)
        /\ UNCHANGED <<loan, schedule, pc, yielded, total_interest, query>>

\* Loan::new(...): the run's one Loan
LoanNew ==
    /\ pc = "main"
    /\ \E start_date \in Dates, end_date \in Dates, loan_amount \in Amounts,
          base_rate \in BaseRates, margin \in Margins, currency \in CurrencyCode :
            loan' = Loan_new(start_date, end_date, loan_amount, base_rate,
                             margin, currency)
    /\ pc' = "loan"
    /\ UNCHANGED <<schedule, yielded, total_interest, value, parsed, query>>

\* Schedule::new(&loan)
ScheduleNew ==
    /\ pc = "loan"
    /\ LET r == Schedule_new(loan)
       IN IF r.tag = "panic"
          THEN pc' = "panic" /\ UNCHANGED schedule
          ELSE pc' = "schedule_new" /\ schedule' = r.v
    /\ UNCHANGED <<loan, yielded, total_interest, value, parsed, query>>

\* Schedule::from(entries), for a Vec<Entry> built by the caller
ScheduleFrom ==
    /\ pc = "main"
    /\ \E entries \in SeqsUpTo(VecEntries, MaxVecLen) :
            schedule' = Schedule(entries)
    /\ pc' = "schedule_from"
    /\ UNCHANGED <<loan, yielded, total_interest, value, parsed, query>>

HasSchedule == pc \in {"schedule_new", "schedule_from"}

\* schedule.next()
IterNext ==
    /\ HasSchedule
    /\ LET r == next(schedule)
       IN /\ schedule' = r[2]
          /\ yielded' = IF r[1].some THEN Append(yielded, r[1].v) ELSE yielded
    /\ UNCHANGED <<loan, pc, total_interest, value, parsed, query>>

\* schedule.calculate_interest()
CalculateInterest ==
    /\ HasSchedule
    /\ total_interest' = [called |-> TRUE,
                          self |-> schedule,
                          ret |-> calculate_interest(schedule)]
    /\ UNCHANGED <<loan, schedule, pc, yielded, value, parsed, query>>

\* a caller asking the rate calculators for the interest of date d
DailyInterest ==
    /\ pc = "loan"
    /\ \E d \in 0..(MaxDay + 1) :
            query' = [asked |-> TRUE,
                      d |-> d,
                      without_margin |-> daily_interest_without_margin(loan),
                      with_margin |-> daily_interest_with_margin(loan)]
    /\ UNCHANGED <<loan, schedule, pc, yielded, total_interest, value, parsed>>

Next == LoanNew \/ ScheduleNew \/ ScheduleFrom \/ IterNext \/ CalculateInterest

Spec == Init /\ [][Next]_vars

NextCurrency == TryFrom

SpecCurrency == Init /\ [][NextCurrency]_vars

NextRate == LoanNew \/ DailyInterest

SpecRate == Init /\ [][NextRate]_vars

(***************************** properties ***********************************)
Built == pc = "schedule_new"

Entries == schedule.entries

\* C1: for a loan with start_date <= end_date Schedule::new yields a schedule
\* of exactly (end_date - start_date).days + 1 entries, and never fails; a
\* same-day loan yields exactly one entry, with days_elapsed = 0.
C1_InclusiveLength ==
    /\ (pc \in {"loan", "schedule_new", "panic"} /\ loan.start_date <= loan.end_date)
          => pc # "panic"
    /\ (Built /\ yielded = <<>>) =>
          /\ Len(Entries) = (loan.end_date - loan.start_date) + 1
          /\ loan.start_date = loan.end_date =>
                /\ Len(Entries) = 1
                /\ Entries[1].days_elapsed = 0

C1_Witness ==
    /\ Built
    /\ yielded = <<>>
    /\ loan.end_date - loan.start_date = MaxDay
    /\ Len(Entries) = MaxDay + 1

\* the cents of d rounded half-to-even to 2 places, characterised: the
\* nearest whole number of cents, the even one when two are equally near
Abs(x) == IF x < 0 THEN -x ELSE x

RefCents(d) ==
    IF d.s <= 2 THEN Rescale(d, 2)
    ELSE LET u == 10^(d.s - 2)
             lo == d.m \div u
         IN CHOOSE c \in lo..(lo + 1) :
                /\ 2 * Abs(d.m - c * u) <= u
                /\ 2 * Abs(d.m - c * u) = u => c % 2 = 0

RECURSIVE RoundThenSum(_, _, _)
RoundThenSum(entries, n, field) ==
    IF n = 0 THEN 0
    ELSE RoundThenSum(entries, n - 1, field) + RefCents(entries[n][field].value)

\* the cents of the unrounded sum, rounded once (amounts share one scale)
SumThenRound(entries, field) ==
    LET sum == RawSum(entries, Len(entries))
    IN RefCents(IF field = "daily_interest_with_margin" THEN sum[1] ELSE sum[2])

\* C2: calculate_interest returns, for with_margin and for without_margin,
\* the sum of the entries' amounts each rounded half-to-even to 2 places.
C2_RoundThenSum ==
    (total_interest.called /\ total_interest.self.entries # <<>>) =>
        LET es == total_interest.self.entries
            t == total_interest.ret
        IN /\ t.some
           /\ t.v.with_margin.value.s <= 2
           /\ t.v.without_margin.value.s <= 2
           /\ Rescale(t.v.with_margin.value, 2)
                = RoundThenSum(es, Len(es), "daily_interest_with_margin")
           /\ Rescale(t.v.without_margin.value, 2)
                = RoundThenSum(es, Len(es), "daily_interest_without_margin")

\* a total over two or more entries where summing first and rounding once
\* would have given another amount
C2_Witness ==
    /\ total_interest.called
    /\ Len(total_interest.self.entries) >= 2
    /\ pc = "schedule_from" \/ loan.loan_amount = Dec(100, 0)
    /\ LET es == total_interest.self.entries
       IN /\ Rescale(total_interest.ret.v.without_margin.value, 2)
                = RoundThenSum(es, Len(es), "daily_interest_without_margin")
          /\ SumThenRound(es, "daily_interest_without_margin")
                # RoundThenSum(es, Len(es), "daily_interest_without_margin")

\* C3: a loan with start_date > end_date is rejected: no Loan with an
\* inverted range is ever constructed, and so none reaches Schedule::new.
C3_InvalidDateRangeRejected ==
    loan.tag = "Loan" => loan.start_date <= loan.end_date

\* C4: the entry at index i (from 0) of a schedule built by Schedule::new has
\* days_elapsed = i and accrual_date = start_date + i, inside
\* [start_date, end_date]; dates ascend strictly; as built, the indices run
\* from 0 to (end_date - start_date).days.
C4_AscendingNoGaps ==
    Built =>
        /\ \A i \in 1..Len(Entries) :
              /\ Entries[i].days_elapsed = i - 1
              /\ Entries[i].accrual_date = loan.start_date + (i - 1)
              /\ Entries[i].accrual_date >= loan.start_date
              /\ Entries[i].accrual_date <= loan.end_date
        /\ \A i, j \in 1..Len(Entries) :
              i < j => Entries[i].accrual_date < Entries[j].accrual_date
        /\ yielded = <<>> =>
              {Entries[i].accrual_date : i \in 1..Len(Entries)}
                 = loan.start_date..loan.end_date

C4_Witness ==
    /\ Built
    /\ yielded = <<>>
    /\ Len(Entries) >= 3
    /\ Entries[3].days_elapsed = 2

\* the texts that read GBP, EUR or USD once upper-cased, letter by letter
Reads(text, a, b, c) ==
    /\ Len(text) = 3
    /\ text[1] \in a
    /\ text[2] \in b
    /\ text[3] \in c

ReadsGBP(text) == Reads(text, {"g", "G"}, {"b", "B"}, {"p", "P"})

ReadsEUR(text) == Reads(text, {"e", "E"}, {"u", "U"}, {"r", "R"})

ReadsUSD(text) == Reads(text, {"u", "U"}, {"s", "S", "long_s"}, {"d", "D"})

\* C5: try_from succeeds exactly for the texts that upper-case to GBP, EUR or
\* USD, with the matching code; any other text gives an UnknownCurrency error
\* carrying the text as given, never a default code.
C5_ParseCurrency ==
    parsed.tag # "none" =>
        /\ ReadsGBP(value) => parsed = Ok("GBP")
        /\ ReadsEUR(value) => parsed = Ok("EUR")
        /\ ReadsUSD(value) => parsed = Ok("USD")
        /\ ~(ReadsGBP(value) \/ ReadsEUR(value) \/ ReadsUSD(value)) =>
              /\ parsed.tag = "Err"
              /\ parsed.currency_code = value

C5_Witness ==
    /\ value = <<"u", "s", "d">>
    /\ parsed = Ok("USD")

\* C6: a total is never folded from amounts of different currencies: every
\* amount that went into a returned total carries the total's currency.
C6_CurrencyChecked ==
    (total_interest.called /\ total_interest.ret.some) =>
        \A i \in 1..Len(total_interest.self.entries) :
            LET e == total_interest.self.entries[i]
                t == total_interest.ret.v
            IN /\ e.daily_interest_with_margin.code = t.with_margin.code
               /\ e.daily_interest_without_margin.code = t.without_margin.code

\* loan_amount x (rate / 365 / 100)
Actual365(loan_amount, rate) ==
    DecMul(loan_amount, DecDiv(DecDiv(rate, 365), 100))

\* C7: every entry of Schedule::new(loan) carries loan_amount x (base_rate /
\* 365 / 100) and loan_amount x ((base_rate + margin) / 365 / 100), unrounded,
\* in the loan's currency, whatever the date; amount 100000, base 5, margin 1
\* over a single day totals 13.70 and 16.44.
C7_Actual365 ==
    /\ Built =>
          \A i \in 1..Len(Entries) :
              LET e == Entries[i]
              IN /\ e.daily_interest_without_margin
                      = Money(Actual365(loan.loan_amount, loan.base_rate),
                              loan.currency)
                 /\ e.daily_interest_with_margin
                      = Money(Actual365(loan.loan_amount,
                                        DecAdd(loan.base_rate, loan.margin)),
                              loan.currency)
                 /\ e.daily_interest_without_margin
                      = Entries[1].daily_interest_without_margin
                 /\ e.daily_interest_with_margin
                      = Entries[1].daily_interest_with_margin
    /\ ( /\ Built
         /\ total_interest.called
         /\ Len(total_interest.self.entries) = 1
         /\ loan.loan_amount = Dec(100000, 0)
         /\ loan.base_rate = Dec(5, 0)
         /\ loan.margin = Dec(1, 0) ) =>
          /\ total_interest.ret.v.without_margin.value = Dec(1370, 2)
          /\ total_interest.ret.v.with_margin.value = Dec(1644, 2)

C7_Witness ==
    /\ Built
    /\ yielded = <<>>
    /\ loan.start_date = loan.end_date
    /\ loan.loan_amount = Dec(100000, 0)
    /\ loan.base_rate = Dec(5, 0)
    /\ loan.margin = Dec(1, 0)
    /\ total_interest.called
    /\ total_interest.ret = Some(TotalInterest(Money(Dec(1644, 2), loan.currency),
                                               Money(Dec(1370, 2), loan.currency)))

\* C8: calculate_interest on a schedule without entries returns None; on a
\* schedule with an entry it returns Some, also when the interest is zero.
C8_EmptyIsNone ==
    total_interest.called =>
        /\ total_interest.self.entries = <<>> => total_interest.ret = None
        /\ total_interest.self.entries # <<>> => total_interest.ret.some

C8_Witness ==
    /\ total_interest.called
    /\ total_interest.self.entries = <<>>
    /\ total_interest.ret = None

Ascending(items) ==
    \A i, j \in 1..Len(items) :
        i < j => items[i].accrual_date < items[j].accrual_date

\* C9: traversal leaves the schedule as it was: a step of Iterator::next that
\* yields an item changes no entry, changes no total, and the items yielded
\* so far ascend by accrual_date.
C9_ReadOnlyTraversal ==
    [][yielded' # yielded =>
          /\ schedule' = schedule
          /\ calculate_interest(schedule') = calculate_interest(schedule)
          /\ Ascending(yielded')]_vars

Outside(l, d) == d < l.start_date \/ d > l.end_date

\* C10: asked about a date outside [start_date, end_date] the rate
\* calculators answer zero, and inside it the formula amounts.
C10_ZeroOutsideRange ==
    (query.asked /\ loan.start_date <= loan.end_date) =>
        IF Outside(loan, query.d)
        THEN /\ DecEq(query.without_margin.value, Zero)
             /\ DecEq(query.with_margin.value, Zero)
        ELSE /\ query.without_margin.value
                  = Actual365(loan.loan_amount, loan.base_rate)
             /\ query.with_margin.value
                  = Actual365(loan.loan_amount, DecAdd(loan.base_rate, loan.margin))

====
